---- MODULE Spec2Model ----
(***************************************************************************)
(* django_filters/filters.py: the Filter class and its variants.           *)
(*                                                                         *)
(* Three specifications share the module:                                  *)
(*   SpecApply    one filter(qs, value) call of each variant at a time     *)
(*   SpecField    threads racing on the lazily memoized Filter.field       *)
(*   SpecDynamic  AllValuesFilter.field over a data store that changes     *)
(***************************************************************************)
EXTENDS Integers, Sequences, FiniteSets, TLC

VARIABLES
    call,          \* SpecApply: the filter(qs, value) call in progress, or Idle
    lookup_type,   \* SpecField: self.lookup_type of the Filter instance
    field_memo,    \* SpecField, SpecDynamic: self._field (NoField: no attribute)
    pc,            \* SpecField: each thread's position inside the field property
    ret,           \* SpecField: the field each thread's last access returned
    observed,      \* SpecField: serials of every field object ever returned
    accesses,      \* SpecField: the accesses of field each thread has started
    assigned,      \* SpecField, SpecDynamic: number of assignments to self._field
    store,         \* SpecDynamic: the rows of the model's table (the attribute column)
    extra_choices, \* SpecDynamic: self.extra['choices']
    av_ret,        \* SpecDynamic: the field the last access of field returned
    av_at          \* SpecDynamic: the store's rows at the time of that access

vars == <<call, lookup_type, field_memo, pc, ret, observed, accesses, assigned,
          store, extra_choices, av_ret, av_at>>

---------------------------------------------------------------------------
(* Bounds of the model.                                                    *)
MaxVal == 3        \* attribute values (and day ordinals) are 0..MaxVal
MaxLen == 2        \* a collection qs holds at most MaxLen items
MaxSel == 2        \* a multi-value selection holds at most MaxSel values
MaxRows == 3       \* the store's table holds at most MaxRows rows
MaxAccess == 2     \* each thread reads the field property at most MaxAccess times
DaysPerMonth == 2  \* the calendar the day ordinals are read in
MonthsPerYear == 2

Vals == 0..MaxVal
Ids == {1, 2}
Tags == {"a", "b", "c", "d"}
Threads == {"t1", "t2"}

RECURSIVE SeqsUpTo(_, _)
SeqsUpTo(S, n) ==
    IF n = 0 THEN {<<>>}
    ELSE LET shorter == SeqsUpTo(S, n - 1)
         IN shorter \cup {Append(q, e) : q \in shorter, e \in S}

Range(q) == {q[i] : i \in 1..Len(q)}

---------------------------------------------------------------------------
(* Python values: None, str, int, bool, list/tuple, slice.                  *)
NoneV == [t |-> "none", n |-> 0, s |-> "", items |-> <<>>]
StrV(s) == [t |-> "str", n |-> 0, s |-> s, items |-> <<>>]
IntV(n) == [t |-> "int", n |-> n, s |-> "", items |-> <<>>]
BoolV(b) == [t |-> "bool", n |-> IF b THEN 1 ELSE 0, s |-> "", items |-> <<>>]
ListV(items) == [t |-> "list", n |-> 0, s |-> "", items |-> items]
\* slice(start, stop), what RangeField hands to RangeFilter.filter
SliceV(start, stop) ==
    [t |-> "slice", n |-> 0, s |-> "", items |-> <<IntV(start), IntV(stop)>>]

\* bool(value): the test of `if value`, `not lookup`, `value or ()`
Truthy(v) ==
    CASE v.t = "none" -> FALSE
      [] v.t = "str" -> v.s # ""
      [] v.t = "int" -> v.n # 0
      [] v.t = "bool" -> v.n # 0
      [] v.t = "list" -> Len(v.items) > 0
      [] OTHER -> TRUE

Digits == <<"0", "1", "2", "3", "4", "5", "6", "7", "8", "9">>

RECURSIVE NatStr(_)
NatStr(n) == IF n < 10 THEN Digits[n + 1] ELSE NatStr(n \div 10) \o Digits[(n % 10) + 1]

\* str(value) for the values an operator name is given as
PyStr(v) ==
    CASE v.t = "str" -> v.s
      [] v.t = "none" -> "None"
      [] v.t = "int" -> IF v.n < 0 THEN "-" \o NatStr(-v.n) ELSE NatStr(v.n)
      [] v.t = "bool" -> IF v.n = 1 THEN "True" ELSE "False"
      [] OTHER -> "<object>"

DigitVal(c) == CHOOSE d \in 0..9 : Digits[d + 1] = c
IsDigit(c) == \E d \in 0..9 : Digits[d + 1] = c

RECURSIVE DigitsVal(_)
DigitsVal(s) ==
    IF Len(s) = 1 THEN DigitVal(s)
    ELSE 10 * DigitsVal(SubSeq(s, 1, Len(s) - 1)) + DigitVal(SubSeq(s, Len(s), Len(s)))

AllDigits(s) == Len(s) > 0 /\ \A i \in 1..Len(s) : IsDigit(SubSeq(s, i, i))

\* int(value): [ok, n]; ok is FALSE where Python raises ValueError or TypeError
PyInt(v) ==
    CASE v.t \in {"int", "bool"} -> [ok |-> TRUE, n |-> v.n]
      [] v.t = "str" ->
           IF AllDigits(v.s) THEN [ok |-> TRUE, n |-> DigitsVal(v.s)]
           ELSE IF Len(v.s) > 1 /\ SubSeq(v.s, 1, 1) = "-"
                   /\ AllDigits(SubSeq(v.s, 2, Len(v.s)))
                THEN [ok |-> TRUE, n |-> -DigitsVal(SubSeq(v.s, 2, Len(v.s)))]
                ELSE [ok |-> FALSE, n |-> 0]
      [] OTHER -> [ok |-> FALSE, n |-> 0]

---------------------------------------------------------------------------
(* The collection: a sequence of model instances.  id is the row's primary *)
(* key, x the filtered attribute (self.name), tags the instance's tags.    *)
Items == [id : Ids, x : Vals, tags : SUBSET Tags]
AttrItems == {it \in Items : it.tags = {}}
TagItems == {it \in Items : it.id = 1 /\ it.x = 0}

\* one row has one attribute value: equal keys mean the same row (a row a
\* join produced twice)
Consistent(qs) ==
    \A i, j \in 1..Len(qs) : qs[i].id = qs[j].id => qs[i] = qs[j]

AttrQs == {qs \in SeqsUpTo(AttrItems, MaxLen) : Consistent(qs)}
TagQs == SeqsUpTo(TagItems, MaxLen)

\* sorted(QUERY_TERMS.keys())
LOOKUP_TYPES ==
    <<"contains", "day", "endswith", "exact", "gt", "gte", "icontains",
      "iendswith", "iexact", "in", "iregex", "isnull", "istartswith", "lt",
      "lte", "month", "range", "regex", "search", "startswith", "week_day",
      "year">>

\* the calendar of the day ordinals
Year(d) == d \div (DaysPerMonth * MonthsPerYear)
Month(d) == ((d \div DaysPerMonth) % MonthsPerYear) + 1
Day(d) == (d % DaysPerMonth) + 1

\* a predicate, one keyword argument of qs.filter: '<name>__<lookup>' = value
Pred(lookup, value) == [lookup |-> lookup, value |-> value]

IsNumber(v) == v.t \in {"int", "bool"}

\* the store's evaluation of one predicate on one row
Matches(it, p) ==
    CASE p.lookup = "exact" -> IsNumber(p.value) /\ it.x = p.value.n
      [] p.lookup = "gt" -> IsNumber(p.value) /\ it.x > p.value.n
      [] p.lookup = "gte" -> IsNumber(p.value) /\ it.x >= p.value.n
      [] p.lookup = "lt" -> IsNumber(p.value) /\ it.x < p.value.n
      [] p.lookup = "lte" -> IsNumber(p.value) /\ it.x <= p.value.n
      [] p.lookup = "range" ->
           /\ Len(p.value.items) = 2
           /\ p.value.items[1].n <= it.x
           /\ it.x <= p.value.items[2].n
      [] p.lookup = "year" -> Year(it.x) = p.value.n
      [] p.lookup = "month" -> Month(it.x) = p.value.n
      [] p.lookup = "day" -> Day(it.x) = p.value.n
      [] OTHER -> FALSE

\* the outcome of a call: the collection returned, the exception raised
\* ("none": it returned), the predicates that were built
Outcome(out, raised, preds) == [out |-> out, raised |-> raised, preds |-> preds]

\* qs.filter(**kwargs): the rows matching every predicate, in qs's order; a
\* lookup outside the vocabulary is refused by the store
QsFilter(qs, preds) ==
    IF \E i \in 1..Len(preds) : preds[i].lookup \notin Range(LOOKUP_TYPES)
    THEN Outcome(<<>>, "FieldError", preds)
    ELSE LET keep(it) == \A i \in 1..Len(preds) : Matches(it, preds[i])
         IN Outcome(SelectSeq(qs, keep), "none", preds)

\* qs.distinct(): each row once, at its first place
RECURSIVE Distinct(_)
Distinct(qs) ==
    IF qs = <<>> THEN <<>>
    ELSE LET front == SubSeq(qs, 1, Len(qs) - 1)
             last == qs[Len(qs)]
         IN IF last \in Range(front) THEN Distinct(front)
            ELSE Append(Distinct(front), last)

---------------------------------------------------------------------------
(* The filter(qs, value) methods, as functions to the call's outcome.       *)

PastDays == 7

Returned(qs) == Outcome(qs, "none", <<>>)
Raised(exc) == Outcome(<<>>, exc, <<>>)

\* a resolution that keeps an empty operator name as it is
Filter_resolve_NoFallback(self_lookup_type, value) ==
    IF value.t = "list"
    THEN IF Len(value.items) < 2
         THEN [raised |-> "IndexError", lookup |-> "", value |-> NoneV]
         ELSE [raised |-> "none",
               lookup |-> PyStr(value.items[2]),
               value |-> value.items[1]]
    ELSE [raised |-> "none", lookup |-> PyStr(self_lookup_type), value |-> value]

\* Filter.filter, step 1 only: the operator and the value the raw input
\* resolves to (lines 55-61)
Filter_resolve(self_lookup_type, value) ==
    IF value.t = "list"
    THEN IF Len(value.items) < 2
         THEN [raised |-> "IndexError", lookup |-> "", value |-> NoneV]
         ELSE LET lookup == PyStr(value.items[2])
              IN [raised |-> "none",
                  lookup |-> IF lookup = "" THEN "exact" ELSE lookup,
                  value |-> value.items[1]]
    ELSE [raised |-> "none", lookup |-> PyStr(self_lookup_type), value |-> value]

Filter_filter(self_lookup_type, qs, value) ==
    LET r == Filter_resolve(self_lookup_type, value)
    IN IF r.raised # "none" THEN Raised(r.raised)
       ELSE IF Truthy(r.value)
            THEN QsFilter(qs, <<Pred(r.lookup, r.value)>>)
            ELSE Returned(qs)

BooleanFilter_filter(qs, value) ==
    IF value.t # "none"
    THEN QsFilter(qs, <<Pred("exact", value)>>)
    ELSE Returned(qs)

\* iterating a list, a tuple or a str
Elements(v) ==
    IF v.t = "str" THEN [i \in 1..Len(v.s) |-> StrV(SubSeq(v.s, i, i))]
    ELSE v.items

HasLen(v) == v.t \in {"list", "str"}

\* qs.filter(q) for q the OR of one equality per selected value; the empty
\* Q() selects every row
QsFilterAny(qs, preds) ==
    LET keep(it) == Len(preds) = 0 \/ \E i \in 1..Len(preds) : Matches(it, preds[i])
    IN Outcome(SelectSeq(qs, keep), "none", preds)

MultipleChoiceFilter_filter(choices, qs, value) ==
    LET v == IF Truthy(value) THEN value ELSE ListV(<<>>)
    IN IF ~HasLen(v) THEN Raised("TypeError")
       ELSE LET sel == Elements(v)
            IN IF Len(sel) = Len(choices) THEN Returned(qs)
               ELSE LET preds == [i \in 1..Len(sel) |-> Pred("exact", sel[i])]
                        r == QsFilterAny(qs, preds)
                    IN Outcome(Distinct(r.out), "none", preds)

\* a range filter whose upper bound is the lower one
RangeFilter_filter_StartOnly(qs, value) ==
    IF Truthy(value)
    THEN IF value.t # "slice" THEN Raised("AttributeError")
         ELSE QsFilter(qs, <<Pred("range",
                  ListV(<<value.items[1], value.items[1]>>))>>)
    ELSE Returned(qs)

RangeFilter_filter(qs, value) ==
    IF Truthy(value)
    THEN IF value.t # "slice" THEN Raised("AttributeError")
         ELSE QsFilter(qs, <<Pred("range",
                  ListV(<<value.items[1], value.items[2]>>))>>)
    ELSE Returned(qs)

\* DateRangeFilter.options[key][1](qs, name); today is datetime.today()
DateRangeFilter_option(key, today, qs) ==
    CASE key = 1 -> QsFilter(qs, <<Pred("year", IntV(Year(today))),
                                   Pred("month", IntV(Month(today))),
                                   Pred("day", IntV(Day(today)))>>)
      [] key = 2 -> QsFilter(qs, <<Pred("gte", IntV(today - PastDays)),
                                   Pred("lt", IntV(today + 1))>>)
      [] key = 3 -> QsFilter(qs, <<Pred("year", IntV(Year(today))),
                                   Pred("month", IntV(Month(today)))>>)
      [] key = 4 -> QsFilter(qs, <<Pred("year", IntV(Year(today)))>>)
      [] OTHER -> Raised("KeyError")

DateRangeFilter_filter(today, qs, value) ==
    LET parsed == PyInt(value)
    IN IF parsed.ok THEN DateRangeFilter_option(parsed.n, today, qs)
       ELSE Returned(qs)

\* ' '.join(value): [ok, s]; ok is FALSE where Python raises TypeError
RECURSIVE JoinStrs(_)
JoinStrs(items) ==
    IF items = <<>> THEN ""
    ELSE IF Len(items) = 1 THEN items[1].s
    ELSE items[1].s \o " " \o JoinStrs(Tail(items))

Join(value) ==
    IF HasLen(value) /\ \A i \in 1..Len(Elements(value)) : Elements(value)[i].t = "str"
    THEN [ok |-> TRUE, s |-> JoinStrs(Elements(value))]
    ELSE [ok |-> FALSE, s |-> ""]

\* the tags a space-separated string names
RECURSIVE SplitTags(_, _)
SplitTags(s, word) ==
    IF s = "" THEN (IF word = "" THEN {} ELSE {word})
    ELSE LET c == SubSeq(s, 1, 1)
             rest == SubSeq(s, 2, Len(s))
         IN IF c = " "
            THEN (IF word = "" THEN {} ELSE {word}) \cup SplitTags(rest, "")
            ELSE SplitTags(rest, word \o c)

\* qs.model.tagged.with_all(value_flat, qs): the instances of qs tagged with
\* all the tags in value_flat
WithAll(value_flat, qs) ==
    LET tags == SplitTags(value_flat, "")
        keep(it) == tags \subseteq it.tags
    IN SelectSeq(qs, keep)

\* a local pass that keeps an instance carrying any one of the tags
LocalPass_Any(value, qs) ==
    LET tags == {Elements(value)[i].s : i \in 1..Len(Elements(value))}
        keep(it) == tags \cap it.tags # {}
    IN SelectSeq(qs, keep)

\* the local pass: set(value).issubset(set(q.get_taggroup(name)))
LocalPass(value, qs) ==
    LET tags == {Elements(value)[i].s : i \in 1..Len(Elements(value))}
        keep(it) == tags \subseteq it.tags
    IN SelectSeq(qs, keep)

\* has_tagged: whether qs.model has the tagged manager
TagFilter_filter(has_tagged, qs, value) ==
    LET value_flat == Join(value)
    IN IF ~value_flat.ok THEN Raised("TypeError")
       ELSE IF value_flat.s # ""
            THEN IF has_tagged THEN Returned(WithAll(value_flat.s, qs))
                 ELSE Returned(LocalPass(value, qs))
            ELSE Returned(qs)

---------------------------------------------------------------------------
(* The field property.                                                      *)

\* a form field object: serial tells one object from another; lookups are
\* the operators a LookupTypeField offers (kind "lookup"), choices the
\* choices of a ChoiceField
Field(serial, kind, lookups, choices) ==
    [serial |-> serial, kind |-> kind, lookups |-> lookups, choices |-> choices]

\* the instance has no _field attribute
NoField == Field(0, "unset", <<>>, <<>>)

\* the object Filter.field constructs (lines 41-51)
Filter_newField(self_lookup_type, choices, serial) ==
    IF self_lookup_type.t = "none" \/ self_lookup_type.t = "list"
    THEN LET named == {self_lookup_type.items[i].s :
                            i \in 1..Len(self_lookup_type.items)}
             offered(x) == x \in named
         IN Field(serial, "lookup",
                  IF self_lookup_type.t = "none" THEN LOOKUP_TYPES
                  ELSE SelectSeq(LOOKUP_TYPES, offered),
                  choices)
    ELSE Field(serial, "plain", <<>>, choices)

\* Filter.field run without interruption: the memo after the access
Filter_field(memo, self_lookup_type, choices, serial) ==
    IF memo = NoField THEN Filter_newField(self_lookup_type, choices, serial)
    ELSE memo

RECURSIVE SortSet(_)
SortSet(S) ==
    IF S = {} THEN <<>>
    ELSE LET m == CHOOSE e \in S : \A o \in S : e <= o
         IN <<m>> \o SortSet(S \ {m})

\* model._default_manager.distinct().order_by(name).values_list(name, flat=True)
DistinctSorted(rows) == SortSet(Range(rows))

---------------------------------------------------------------------------
(* SpecApply: the calls.                                                    *)

Call(variant, qs, value, self_lookup_type, choices, today, has_tagged, res) ==
    [variant |-> variant, qs |-> qs, value |-> value,
     lookup_type |-> self_lookup_type, choices |-> choices, today |-> today,
     has_tagged |-> has_tagged, res |-> res]

Idle == Call("idle", <<>>, NoneV, NoneV, <<>>, 0, FALSE, Returned(<<>>))

\* the inputs of the calls
Scalars == {NoneV, StrV("")} \cup {IntV(n) : n \in Vals}
OperatorNames == {StrV(""), StrV("exact"), StrV("gt"), StrV("lte"), StrV("bogus"), NoneV}
Pairs == {ListV(<<v, op>>) : v \in Scalars, op \in OperatorNames}
FilterValues == Scalars \cup Pairs \cup {ListV(<<>>)}
LookupTypeSettings == {StrV("exact"), StrV("gte"), NoneV}
BooleanValues == {NoneV, BoolV(TRUE), BoolV(FALSE), StrV(""), ListV(<<>>)}
Selections == {ListV(sel) : sel \in SeqsUpTo({IntV(n) : n \in Vals}, MaxSel)}
MultipleValues == {NoneV, StrV("")} \cup Selections
ChoiceLists == {c \in SeqsUpTo(Vals, MaxSel) : \A i, j \in 1..Len(c) : i < j => c[i] < c[j]}
RangeValues == {NoneV} \cup {SliceV(a, b) : a \in Vals, b \in Vals}
BucketKeys ==
    {NoneV, ListV(<<>>), StrV(""), StrV("x"), StrV("0"), StrV("1"), StrV("2"),
     StrV("3"), StrV("4"), StrV("5"), StrV("-1"), StrV("12")}
        \cup {IntV(n) : n \in -1..5}
TagSelections == {ListV(sel) : sel \in SeqsUpTo({StrV(tg) : tg \in Tags}, MaxSel)}
TagValues == {NoneV, StrV("")} \cup TagSelections

\* what an access of field gave its caller: the exception raised ("none": it
\* returned) and the field returned
Access(raised, fld) == [raised |-> raised, field |-> fld]
NoReturn == Access("none", NoField)

InitApply ==
    /\ call = Idle
    /\ lookup_type = NoneV
    /\ field_memo = NoField
    /\ pc = [t \in Threads |-> "idle"]
    /\ ret = [t \in Threads |-> NoReturn]
    /\ observed = {}
    /\ accesses = [t \in Threads |-> 0]
    /\ assigned = 0
    /\ store = <<>>
    /\ extra_choices = <<>>
    /\ av_ret = NoField
    /\ av_at = <<>>

others == <<lookup_type, field_memo, pc, ret, observed, accesses, assigned,
            store, extra_choices, av_ret, av_at>>

FilterCall ==
    /\ call = Idle
    /\ \E qs \in AttrQs, value \in FilterValues, lt \in LookupTypeSettings :
          call' = Call("Filter", qs, value, lt, <<>>, 0, FALSE,
                       Filter_filter(lt, qs, value))
    /\ UNCHANGED others

BooleanFilterCall ==
    /\ call = Idle
    /\ \E qs \in AttrQs, value \in BooleanValues :
          call' = Call("BooleanFilter", qs, value, NoneV, <<>>, 0, FALSE,
                       BooleanFilter_filter(qs, value))
    /\ UNCHANGED others

MultipleChoiceFilterCall ==
    /\ call = Idle
    /\ \E qs \in AttrQs, value \in MultipleValues, choices \in ChoiceLists :
          call' = Call("MultipleChoiceFilter", qs, value, NoneV, choices, 0, FALSE,
                       MultipleChoiceFilter_filter(choices, qs, value))
    /\ UNCHANGED others

RangeFilterCall ==
    /\ call = Idle
    /\ \E qs \in AttrQs, value \in RangeValues :
          call' = Call("RangeFilter", qs, value, NoneV, <<>>, 0, FALSE,
                       RangeFilter_filter(qs, value))
    /\ UNCHANGED others

DateRangeFilterCall ==
    /\ call = Idle
    /\ \E qs \in AttrQs, value \in BucketKeys, today \in Vals :
          call' = Call("DateRangeFilter", qs, value, NoneV, <<>>, today, FALSE,
                       DateRangeFilter_filter(today, qs, value))
    /\ UNCHANGED others

TagFilterCall ==
    /\ call = Idle
    /\ \E qs \in TagQs, value \in TagValues, has_tagged \in BOOLEAN :
          call' = Call("TagFilter", qs, value, NoneV, <<>>, 0, has_tagged,
                       TagFilter_filter(has_tagged, qs, value))
    /\ UNCHANGED others

\* the caller takes the outcome; the next call may start
CallDone ==
    /\ call # Idle
    /\ call' = Idle
    /\ UNCHANGED others

NextApply ==
    \/ FilterCall
    \/ BooleanFilterCall
    \/ MultipleChoiceFilterCall
    \/ RangeFilterCall
    \/ DateRangeFilterCall
    \/ TagFilterCall
    \/ CallDone

SpecApply == InitApply /\ [][NextApply]_vars

---------------------------------------------------------------------------
(* SpecField: threads reading Filter.field of one instance.                 *)

LookupTypeConfigs ==
    {StrV("exact"), StrV("bogus"), NoneV,
     ListV(<<StrV("exact"), StrV("gt")>>),
     ListV(<<StrV("gt"), StrV("exact")>>),
     ListV(<<StrV("exact"), StrV("bogus")>>)}

InitField ==
    /\ call = Idle
    /\ lookup_type \in LookupTypeConfigs
    /\ field_memo = NoField
    /\ pc = [t \in Threads |-> "idle"]
    /\ ret = [t \in Threads |-> NoReturn]
    /\ observed = {}
    /\ accesses = [t \in Threads |-> 0]
    /\ assigned = 0
    /\ store = <<>>
    /\ extra_choices = <<>>
    /\ av_ret = NoField
    /\ av_at = <<>>

\* line 40: if not hasattr(self, '_field')
FieldCheck(t) ==
    /\ pc[t] = "idle"
    /\ accesses[t] < MaxAccess
    /\ accesses' = [accesses EXCEPT ![t] = @ + 1]
    /\ pc' = [pc EXCEPT ![t] = IF field_memo = NoField THEN "build" ELSE "return"]
    /\ UNCHANGED <<call, lookup_type, field_memo, ret, observed, assigned,
                   store, extra_choices, av_ret, av_at>>

\* lines 41-51: construct the field and assign self._field
FieldAssign(t) ==
    /\ pc[t] = "build"
    /\ field_memo' = Filter_newField(lookup_type, <<>>, assigned + 1)
    /\ assigned' = assigned + 1
    /\ pc' = [pc EXCEPT ![t] = "return"]
    /\ UNCHANGED <<call, lookup_type, ret, observed, accesses,
                   store, extra_choices, av_ret, av_at>>

\* line 52: return self._field
FieldReturn(t) ==
    /\ pc[t] = "return"
    /\ ret' = [ret EXCEPT ![t] = Access("none", field_memo)]
    /\ observed' = observed \cup {field_memo.serial}
    /\ pc' = [pc EXCEPT ![t] = "idle"]
    /\ UNCHANGED <<call, lookup_type, field_memo, accesses, assigned,
                   store, extra_choices, av_ret, av_at>>

NextField ==
    \E t \in Threads :
        \/ FieldCheck(t)
        \/ FieldAssign(t)
        \/ FieldReturn(t)

SpecField == InitField /\ [][NextField]_vars

---------------------------------------------------------------------------
(* SpecDynamic: AllValuesFilter.field over a store that changes.            *)

InitDynamic ==
    /\ call = Idle
    /\ lookup_type = StrV("exact")
    /\ field_memo = NoField
    /\ pc = [t \in Threads |-> "idle"]
    /\ ret = [t \in Threads |-> NoReturn]
    /\ observed = {}
    /\ accesses = [t \in Threads |-> 0]
    /\ assigned = 0
    /\ store = <<>>
    /\ extra_choices = <<>>
    /\ av_ret = NoField
    /\ av_at = <<>>

StoreInsert ==
    /\ Len(store) < MaxRows
    /\ \E v \in Vals : store' = Append(store, v)
    /\ UNCHANGED <<call, lookup_type, field_memo, pc, ret, observed, accesses,
                   assigned, extra_choices, av_ret, av_at>>

StoreDelete ==
    /\ \E i \in 1..Len(store) :
          store' = SubSeq(store, 1, i - 1) \o SubSeq(store, i + 1, Len(store))
    /\ UNCHANGED <<call, lookup_type, field_memo, pc, ret, observed, accesses,
                   assigned, extra_choices, av_ret, av_at>>

\* AllValuesFilter.field (lines 157-160), one access
AllValuesFieldAccess ==
    LET choices == DistinctSorted(store)
        memo == Filter_field(field_memo, lookup_type, choices, assigned + 1)
    IN /\ extra_choices' = choices
       /\ field_memo' = memo
       /\ assigned' = IF field_memo = NoField THEN assigned + 1 ELSE assigned
       /\ av_ret' = memo
       /\ av_at' = store
       /\ UNCHANGED <<call, lookup_type, pc, ret, observed, accesses, store>>

NextDynamic ==
    \/ StoreInsert
    \/ StoreDelete
    \/ AllValuesFieldAccess

SpecDynamic == InitDynamic /\ [][NextDynamic]_vars

---------------------------------------------------------------------------
(* The claims.                                                              *)

IsEmptyValue(v) == v \in {NoneV, StrV(""), ListV(<<>>)}

\* C1: for every filter variant and every collection qs, filter(qs, value)
\* with an absent or empty value (None, '', [] or ()) raises nothing and
\* returns exactly the items of qs.
C1_NoOpLaw ==
    (call # Idle /\ IsEmptyValue(call.value))
        => (call.res.raised = "none" /\ call.res.out = call.qs)

\* C2: every access of an AllValuesFilter's field offers as choices exactly
\* the distinct sorted values of the store at the time of that access.
C2_FreshChoices ==
    av_ret # NoField => av_ret.choices = DistinctSorted(av_at)

SelectedNumbers(value) == {value.items[i].n : i \in 1..Len(value.items)}

OrOfEqualities(qs, value) ==
    LET keep(it) == it.x \in SelectedNumbers(value)
    IN Distinct(SelectSeq(qs, keep))

\* C3: MultipleChoiceFilter.filter(qs, value), for a non-empty selection
\* among the field's choices, returns exactly the items of qs when value is
\* the full choice set of the field, and for every other value the
\* deduplicated items of qs whose attribute equals one of the selected
\* values.
C3_MultiValueOr ==
    (call.variant = "MultipleChoiceFilter" /\ call.value.t = "list"
        /\ Len(call.value.items) > 0
        /\ SelectedNumbers(call.value) \subseteq Range(call.choices))
        => /\ call.res.raised = "none"
           /\ call.res.out =
                 IF SelectedNumbers(call.value) = Range(call.choices)
                 THEN call.qs
                 ELSE OrOfEqualities(call.qs, call.value)

\* C4: DateRangeFilter.filter(qs, value) never raises; a value that is no
\* integer, or an integer that is no key of the buckets (0, 5, -1), gets the
\* "any" bucket and the result is qs; a key 1..4 gets that bucket's rule.
C4_BucketFallback ==
    call.variant = "DateRangeFilter"
        => LET parsed == PyInt(call.value)
           IN /\ call.res.raised = "none"
              /\ (~parsed.ok \/ parsed.n \notin 1..4) => call.res.out = call.qs
              /\ (parsed.ok /\ parsed.n \in 1..4)
                    => call.res = DateRangeFilter_option(parsed.n, call.today, call.qs)

SelectedTags(value) == {value.items[i].s : i \in 1..Len(value.items)}

TaggedWithAll(qs, value) ==
    LET keep(it) == SelectedTags(value) \subseteq it.tags
    IN SelectSeq(qs, keep)

\* C5: TagFilter.filter(qs, value) with a non-empty selection returns, on
\* both code paths, exactly the items of qs whose tag set is a superset of
\* the selected tags, in the order of qs.
C5_TagSubset ==
    (call.variant = "TagFilter" /\ call.value.t = "list"
        /\ Len(call.value.items) > 0)
        => /\ call.res.raised = "none"
           /\ call.res.out = TaggedWithAll(call.qs, call.value)

TagItem(tags) == [id |-> 1, x |-> 0, tags |-> tags]

\* the local pass keeps, of two items, the one tagged {a,b,c} for the
\* selection (a, b) and drops the one tagged {a,d}
C5_Witness ==
    /\ call.variant = "TagFilter"
    /\ ~call.has_tagged
    /\ call.value = ListV(<<StrV("a"), StrV("b")>>)
    /\ call.qs = <<TagItem({"a", "d"}), TagItem({"a", "b", "c"})>>
    /\ call.res.out = <<TagItem({"a", "b", "c"})>>

\* C6: RangeFilter.filter(qs, value) with bounds (a, b) builds one inclusive
\* range predicate with both bounds and returns exactly the items of qs with
\* the attribute in [a, b] (those equal to a when a = b); with an absent
\* value it returns qs unchanged.
C6_RangeExact ==
    call.variant = "RangeFilter"
        => /\ call.res.raised = "none"
           /\ call.value.t = "slice"
                 => LET a == call.value.items[1].n
                        b == call.value.items[2].n
                        inside(it) == a <= it.x /\ it.x <= b
                        equal(it) == it.x = a
                    IN /\ call.res.preds = <<Pred("range", ListV(<<IntV(a), IntV(b)>>))>>
                       /\ call.res.out = SelectSeq(call.qs, inside)
                       /\ a = b => call.res.out = SelectSeq(call.qs, equal)
           /\ call.value = NoneV
                 => (call.res.out = call.qs /\ call.res.preds = <<>>)

C6_Witness ==
    /\ call.variant = "RangeFilter"
    /\ call.value = SliceV(1, 3)
    /\ Len(call.qs) = 2
    /\ call.qs[1].x = 0
    /\ call.qs[2].x = 3
    /\ call.res.out = <<call.qs[2]>>

IsPair(v) == v.t = "list" /\ Len(v.items) = 2

C8_OperatorVocabulary ==
    (call.variant = "Filter" /\ IsPair(call.value)
        /\ call.value.items[2].t = "str" /\ Truthy(call.value.items[1]))
        => /\ \A i \in 1..Len(call.res.preds) :
                 call.res.preds[i].lookup \in Range(LOOKUP_TYPES)
           /\ (call.value.items[2].s \notin Range(LOOKUP_TYPES) \cup {""})
                 => (call.res.raised # "none" /\ call.res.preds = <<>>)

\* the operators a lookup_type setting names
NamedOperators(setting) ==
    CASE setting.t = "str" -> {setting.s}
      [] setting.t = "list" -> {setting.items[i].s : i \in 1..Len(setting.items)}
      [] OTHER -> {}

\* C9: a filter configured with an operator outside the vocabulary raises a
\* configuration error when its field is resolved: no access of field
\* returns a field for it.
C9_EagerConfigError ==
    (NamedOperators(lookup_type) \ Range(LOOKUP_TYPES) # {})
        => \A t \in Threads : ret[t] # NoReturn => ret[t].raised # "none"

\* C10: the memo _field of one instance is assigned at most once, and every
\* access of field, the racing first ones included, returns the same object.
C10_SingleAssignment ==
    assigned <= 1 /\ Cardinality(observed) <= 1

====
